---- MODULE Spec2Model ----
(***************************************************************************)
(* DSIRE record-to-table transformation of flex-value-db                   *)
(* (src/derdata/dsire/parse.py), its persistence (write_processed), the    *)
(* browser's load path (src/apps/dsire_browser/app.py) and the snapshot    *)
(* writer of the fetch CLI (src/derdata/dsire/update_dsire.py).            *)
(*                                                                         *)
(* Python values are tagged: [ty |-> type name, v |-> natural].  A string  *)
(* is the natural that ranks it in code-point order, 0 being the empty     *)
(* string; a narrative text also carries its tokens, a literal of the code *)
(* its spelling; a list value is its length.  dict.get of a missing key    *)
(* and of a key holding null both give None, so a raw record is a record   *)
(* whose absent keys hold PyNone.                                          *)
(***************************************************************************)
EXTENDS Integers, Sequences, FiniteSets, TLC

VARIABLES
  raw_dir,      \* data/raw/dsire/<version_tag>: [exists, files: name -> document]
  processed,    \* data/processed: file name -> [ex, df]
  memo,         \* st.cache_data entry of load_processed_or_build(version_tag)
  op,           \* the outermost call being executed
  fmt,          \* write_processed's fmt argument
  pc,           \* position inside the call
  todo,         \* load_raw_dir: sorted(base.glob(...)) not yet read
  recs,         \* load_raw_dir: recs; build_tables: records
  idx,          \* build_tables: number of records already handled by the for loop
  prog_rows,    \* build_tables: prog_rows
  param_rows,   \* build_tables: param_rows
  outcome,      \* what the finished call returned or raised
  cli,          \* update_dsire: the state file and the run of main in progress
  req           \* DsireClient: its configuration and the _request in progress

vars == <<raw_dir, processed, memo, op, fmt, pc, todo, recs, idx, prog_rows,
          param_rows, outcome, cli, req>>

(* ------------------------------ bounds ------------------------------- *)
MaxRecs  == 3   \* records of one snapshot file (build families)
MaxFiles == 2   \* snapshot files of a version directory (loader families)
MaxFetch == 1   \* snapshot files the fetch CLI may add

(* --------------------------- Python values --------------------------- *)
PyNone    == [ty |-> "none", v |-> 0]
PyInt(n)  == [ty |-> "int", v |-> n]
PyStr(n)  == [ty |-> "str", v |-> n]
PyList(n) == [ty |-> "list", v |-> n]

\* bool(x): None, 0, "" and [] are falsy
Truthy(x) == x.ty /= "none" /\ x.v /= 0

\* a or b
PyOr(a, b) == IF Truthy(a) THEN a ELSE b

SeqsUpTo(S, n) == UNION {[1..k -> S] : k \in 0..n}

Range(s) == {s[k] : k \in DOMAIN s}

\* a narrative string: the phrases the patterns can see, in reading order
PyText(toks) == [ty |-> "str", v |-> Len(toks), toks |-> toks]
\* a string literal of the code
PyLit(s) == [ty |-> "str", v |-> 1, lit |-> s]

(* ------------------------- parse.py helpers -------------------------- *)
\* the phrases of a narrative text each pattern family matches
\* ("up to $3/kW" is matched by the cap pattern and by the $/kW pattern)
KwToks  == {"$5/kW", "up to $3/kW"}
KwhToks == {"$1/kWh"}
WToks   == {"$2/W"}
PctToks == {"50%"}
CapToks == {"up to $2500", "up to $3/kW"}
TagToks == {"<b>"}
BrToks  == {"<br>", "<br/>", "<br />"}
SpaceToks == {" ", "\n"}
Tokens  == KwToks \cup KwhToks \cup WToks \cup PctToks \cup CapToks \cup TagToks
             \cup BrToks \cup SpaceToks \cup {"solar", "&amp;", "&"}

\* float(m.group(1).replace(",", ""))
TokAmount(t) ==
  CASE t = "$5/kW" -> 5 [] t = "$1/kWh" -> 1 [] t = "$2/W" -> 2
    [] t = "50%" -> 50 [] t = "up to $2500" -> 2500
    [] t = "up to $3/kW" -> 3 [] OTHER -> 0

\* the subsequence of s whose elements are in S
Filter(s, S) ==
  LET RECURSIVE go(_)
      go(k) == IF k = 0 THEN <<>>
               ELSE IF s[k] \in S THEN Append(go(k - 1), s[k]) ELSE go(k - 1)
  IN go(Len(s))

\* str.strip(): the text without its leading and trailing white space
StripSpace(toks) ==
  LET keep == {k \in DOMAIN toks : toks[k] \notin SpaceToks}
      lo == CHOOSE k \in keep : \A j \in keep : k <= j
      hi == CHOOSE k \in keep : \A j \in keep : j <= k
  IN IF keep = {} THEN <<>> ELSE SubSeq(toks, lo, hi)

\* html.unescape of one phrase
Unescape(t) == IF t = "&amp;" THEN "&" ELSE t

\* _strip_html: None for a non-string or blank input; else every <br>
\* variant becomes a newline, the other tags go, the entities are decoded
\* and the result is stripped, None when nothing is left
_strip_html(s) ==
  IF s.ty /= "str" \/ StripSpace(s.toks) = <<>> THEN PyNone
  ELSE LET br == [k \in DOMAIN s.toks |->
                    IF s.toks[k] \in BrToks THEN "\n" ELSE s.toks[k]]
           untagged == Filter(br, Tokens \ TagToks)
           out == StripSpace([k \in DOMAIN untagged |-> Unescape(untagged[k])])
       IN IF out = <<>> THEN PyNone ELSE PyText(out)

\* a date string dateutil parses (date: its calendar day), and the ISO
\* string of a calendar day
PyDateStr(d) == [ty |-> "str", v |-> 1, date |-> d]
PyIso(d) == [ty |-> "str", v |-> 1, iso |-> d]

\* _parse_date returning the text as it was written
_parse_date_keeps_text(s) ==
  IF ~Truthy(s) \/ s.ty /= "str" THEN PyNone
  ELSE IF "date" \in DOMAIN s THEN s ELSE PyNone

\* _parse_date: None for a falsy or non-string input and for a string the
\* parser rejects, else the ISO calendar date
_parse_date(s) ==
  IF ~Truthy(s) \/ s.ty /= "str" THEN PyNone
  ELSE IF "date" \in DOMAIN s THEN PyIso(s.date) ELSE PyNone

\* Hits noting only the phrase that matched
HitsNotingMatch(text, S, units, qualifier) ==
  LET m == Filter(text.toks, S)
  IN [k \in 1..Len(m) |->
        [amount |-> TokAmount(m[k]), units |-> PyLit(units),
         qualifier |-> qualifier, source |-> PyLit("DerivedFromDetails"),
         notes |-> PyText(<<m[k]>>)]]

\* pat.finditer(text) of one family, as hits
Hits(text, S, units, qualifier) ==
  LET m == Filter(text.toks, S)
  IN [k \in 1..Len(m) |->
        [amount |-> TokAmount(m[k]), units |-> PyLit(units),
         qualifier |-> qualifier, source |-> PyLit("DerivedFromDetails"),
         notes |-> text]]

\* _extract_amounts_any: $/kW, $/kWh, $/W hits, then % hits, then cap hits
_extract_amounts_any(text) ==
  IF ~Truthy(text) THEN <<>>
  ELSE Hits(text, KwToks, "$/kW", PyNone) \o Hits(text, KwhToks, "$/kWh", PyNone)
         \o Hits(text, WToks, "$/W", PyNone) \o Hits(text, PctToks, "%", PyNone)
         \o Hits(text, CapToks, "USD", PyLit("cap"))

\* UnwrapKeys trying "results" first
UnwrapKeysResultsFirst == <<"results", "Programs", "data", "items">>

\* the container keys _unwrap tries, in order
UnwrapKeys == <<"Programs", "results", "data", "items">>

\* _unwrap: a list as is; a dict's first container key holding a list, else
\* the dict itself as the only record; anything else gives no record.
\* A document is [kind, items] for a list, [kind, Programs, results, data,
\* items, rec] for a dict (rec: the dict read as a program record; a
\* container value is [present, isList, items]).
_unwrap(obj) ==
  LET RECURSIVE first(_)
      first(k) == IF k > Len(UnwrapKeys) THEN <<obj.rec>>
                  ELSE IF obj[UnwrapKeys[k]].present /\ obj[UnwrapKeys[k]].isList
                       THEN obj[UnwrapKeys[k]].items
                       ELSE first(k + 1)
  IN IF obj.kind = "list" THEN obj.items
     ELSE IF obj.kind = "dict" THEN first(1)
     ELSE <<>>

\* sorted(base.glob("dsire_programs_*.json.gz")): a file name is a natural,
\* the order of the naturals being the order of the names; name 0 is a file
\* the pattern does not match
GlobMatches(name) == name >= 1

\* SortedGlob without sorted(): the files in descending order
GlobDescending(files) ==
  LET S == {n \in DOMAIN files : GlobMatches(n)}
      RECURSIVE desc(_)
      desc(T) == IF T = {} THEN <<>>
                 ELSE LET m == CHOOSE x \in T : \A y \in T : x >= y
                      IN <<m>> \o desc(T \ {m})
  IN desc(S)

SortedGlob(files) ==
  LET S == {n \in DOMAIN files : GlobMatches(n)}
      RECURSIVE asc(_)
      asc(T) == IF T = {} THEN <<>>
                ELSE LET m == CHOOSE x \in T : \A y \in T : x <= y
                     IN <<m>> \o asc(T \ {m})
  IN asc(S)

\* [t.get(key) for t in items]
Project(items, key) == [k \in DOMAIN items |-> items[k][key]]

\* what an expression that raises TypeError stands for in a row under
\* construction
PyTypeError == [ty |-> "TypeError", v |-> 0]

\* _join_unique keeping every truthy item, repeated or not
_join_all(items) ==
  LET out == SelectSeq(items, Truthy)
  IN IF out = <<>> THEN PyNone
     ELSE IF \E k \in DOMAIN out : out[k].ty /= "str" THEN PyTypeError
     ELSE [ty |-> "str", v |-> Len(out), parts |-> out]

\* _join_unique: the truthy items, each once at its first occurrence, joined
\* by "; "; None when nothing is left; str.join raises TypeError on an item
\* that is not a string
_join_unique(items) ==
  LET RECURSIVE seen(_)
      seen(k) == IF k = 0 THEN <<>>
                 ELSE LET sk == seen(k - 1)
                      IN IF Truthy(items[k]) /\ items[k] \notin Range(sk)
                         THEN Append(sk, items[k]) ELSE sk
      out == seen(Len(items))
  IN IF out = <<>> THEN PyNone
     ELSE IF \E k \in DOMAIN out : out[k].ty /= "str" THEN PyTypeError
     ELSE [ty |-> "str", v |-> Len(out), parts |-> out]

\* str(x)
PyStrOf(x) == IF x.ty = "str" THEN x ELSE [ty |-> "str", v |-> 1, of |-> x]

\* a string spelling the number n
PyNumStr(n) == [ty |-> "str", v |-> 1, num |-> n]

\* float(amount) succeeds: a number, or a string spelling one
FloatOk(x) == x.ty \in {"int", "float"} \/ (x.ty = "str" /\ "num" \in DOMAIN x)

\* float(amount)
FloatOf(x) == IF x.ty = "str" THEN x.num ELSE x.v

\* (d.get("label") or "").strip()
StripLabel(l) ==
  CASE l = " " -> "" [] l = "Maximum Incentive " -> "Maximum Incentive"
    [] OTHER -> l

DetLabels == {"Incentive Amount", "Incentive", "Benefit Details",
              "Maximum Incentive", "Equipment Requirements",
              "Installation Requirements", "Eligibility",
              "Eligibility Requirements",
              "Ownership of Renewable Energy Credits"}

\* DetMap storing the stripped value even when nothing is left of it
DetMapStoresEmpty(dets) ==
  LET RECURSIVE go(_)
      go(k) ==
        IF k = 0 THEN [l \in DetLabels |-> PyNone]
        ELSE LET m == go(k - 1)
                 label == StripLabel(dets[k].label)
                 txt == _strip_html(dets[k].value)
             IN IF label = "" THEN m
                ELSE IF label \in DetLabels
                     THEN [m EXCEPT ![label] = txt] ELSE m
  IN go(Len(dets))

\* det_map after the loop over Details (a label not stored reads as None)
DetMap(dets) ==
  LET RECURSIVE go(_)
      go(k) ==
        IF k = 0 THEN [l \in DetLabels |-> PyNone]
        ELSE LET m == go(k - 1)
                 label == StripLabel(dets[k].label)
                 txt == _strip_html(dets[k].value)
             IN IF label = "" THEN m
                ELSE IF Truthy(txt) /\ label \in DetLabels
                     THEN [m EXCEPT ![label] = txt] ELSE m
  IN go(Len(dets))

\* ResolvePid falling back to the program name
ResolvePidOrName(r) == PyOr(PyOr(PyOr(r.ProgramId, r.ProgramID), r.Id), r.Name)

\* pid = r.get("ProgramId") or r.get("ProgramID") or r.get("Id")
ResolvePid(r) == PyOr(PyOr(r.ProgramId, r.ProgramID), r.Id)

IncentiveText(r) ==
  LET m == DetMap(r.Details)
  IN PyOr(PyOr(m["Incentive Amount"], m["Incentive"]), m["Benefit Details"])

MaxIncentiveText(r) == DetMap(r.Details)["Maximum Incentive"]

\* [str(u.get("EIA_id")) for u in utils_ if u.get("EIA_id")]
EiaIds(utils) ==
  LET RECURSIVE go(_)
      go(k) == IF k = 0 THEN <<>>
               ELSE IF Truthy(utils[k].EIA_id)
                    THEN Append(go(k - 1), PyStrOf(utils[k].EIA_id))
                    ELSE go(k - 1)
  IN go(Len(utils))

\* the ProgramRow(...) call of build_tables, before validation, m being
\* det_map
ProgramRowFrom(r, pid, m) ==
  [program_id |-> pid, program_code |-> r.Code, program_name |-> r.Name,
   state |-> r.State,
   administrator |-> PyOr(r.Administrator, r.ImplementingSectorName),
   implementing_sector_name |-> r.ImplementingSectorName,
   category_name |-> r.CategoryName, type_name |-> r.TypeName,
   website_url |-> PyOr(PyOr(r.WebsiteUrl, r.ProgramURL), r.Website),
   funding_source |-> r.FundingSource, budget_text |-> r.Budget,
   start_date |-> _parse_date(PyOr(r.StartDate, r.EffectiveDate)),
   end_date |-> _parse_date(PyOr(r.EndDate, r.ExpirationDate)),
   last_updated |-> _parse_date(PyOr(r.LastUpdate, r.LastUpdated)),
   technologies |-> _join_unique(Project(r.Technologies, "name")),
   technology_categories |-> _join_unique(Project(r.Technologies, "category")),
   sectors |-> _join_unique(Project(r.Sectors, "name")),
   utilities |-> _join_unique(Project(r.Utilities, "name")),
   utilities_eia_ids |-> _join_unique(EiaIds(r.Utilities)),
   incentive_text |-> PyOr(PyOr(m["Incentive Amount"], m["Incentive"]),
                           m["Benefit Details"]),
   max_incentive_text |-> m["Maximum Incentive"],
   equipment_requirements |-> m["Equipment Requirements"],
   installation_requirements |-> m["Installation Requirements"],
   eligibility_text |-> PyOr(m["Eligibility"], m["Eligibility Requirements"]),
   rec_ownership_text |-> m["Ownership of Renewable Energy Credits"]]

ProgramRowOf(r, pid) == ProgramRowFrom(r, pid, DetMap(r.Details))

\* pydantic: program_id: int | str, the other fields Optional[str]
ValidProgramRow(row) ==
  /\ row.program_id.ty \in {"int", "str"}
  /\ \A f \in DOMAIN row \ {"program_id"} : row[f].ty \in {"none", "str"}

\* pydantic: ParameterRow's program_id: int | str, qualifier: Optional[str]
ValidParameterRow(row) ==
  /\ row.program_id.ty \in {"int", "str"}
  /\ row.qualifier.ty \in {"none", "str"}

\* GroupRows leaving the group at the first entry it cannot use
GroupRowsBreak(pp, pid) ==
  LET ps == pp.parameters
      fails(k) == ps[k].amount = PyNone \/ ps[k].units = PyNone
                    \/ ~FloatOk(ps[k].amount)
      RECURSIVE go(_)
      go(k) ==
        IF k = 0 THEN <<>>
        ELSE IF \E j \in 1..k : fails(j)
             THEN go(k - 1)
             ELSE Append(go(k - 1),
                    [program_id |-> pid, source |-> PyLit("ProgramParameters"),
                     tech |-> _join_unique(Project(pp.technologies, "name")),
                     sector |-> _join_unique(Project(pp.sectors, "name")),
                     qualifier |-> ps[k].qualifier,
                     amount |-> FloatOf(ps[k].amount),
                     units |-> PyStrOf(ps[k].units), notes |-> PyNone])
  IN go(Len(ps))

\* the rows of one parameter group: an entry without amount or units, or
\* whose amount float() rejects, is passed over
GroupRows(pp, pid) ==
  LET ps == pp.parameters
      RECURSIVE go(_)
      go(k) ==
        IF k = 0 THEN <<>>
        ELSE IF ps[k].amount = PyNone \/ ps[k].units = PyNone
                  \/ ~FloatOk(ps[k].amount)
             THEN go(k - 1)
             ELSE Append(go(k - 1),
                    [program_id |-> pid, source |-> PyLit("ProgramParameters"),
                     tech |-> _join_unique(Project(pp.technologies, "name")),
                     sector |-> _join_unique(Project(pp.sectors, "name")),
                     qualifier |-> ps[k].qualifier,
                     amount |-> FloatOf(ps[k].amount),
                     units |-> PyStrOf(ps[k].units), notes |-> PyNone])
  IN go(Len(ps))

\* StructuredRows stamping the rows with the first alias instead of pid
StructuredRowsFirstAlias(r, pid) ==
  LET RECURSIVE go(_)
      go(k) == IF k = 0 THEN <<>>
               ELSE go(k - 1) \o GroupRows(r.ProgramParameters[k], r.ProgramId)
  IN go(Len(r.ProgramParameters))

\* the "Structured (preferred)" loop
StructuredRows(r, pid) ==
  LET RECURSIVE go(_)
      go(k) == IF k = 0 THEN <<>>
               ELSE go(k - 1) \o GroupRows(r.ProgramParameters[k], pid)
  IN go(Len(r.ProgramParameters))

\* DerivedRows passing the hit's qualifier on in both loops
DerivedRowsNoDefault(r, pid) ==
  LET h1 == _extract_amounts_any(IncentiveText(r))
      h2 == _extract_amounts_any(MaxIncentiveText(r))
  IN [k \in 1..(Len(h1) + Len(h2)) |->
        LET h == IF k <= Len(h1) THEN h1[k] ELSE h2[k - Len(h1)]
        IN [program_id |-> pid, source |-> PyStrOf(h.source), tech |-> PyNone,
            sector |-> PyNone, qualifier |-> h.qualifier, amount |-> h.amount,
            units |-> PyStrOf(h.units),
            notes |-> PyStrOf(PyOr(h.notes, PyLit("")))]]

\* the "Derived (narrative)" loops: incentive text, then maximum incentive
DerivedRows(r, pid) ==
  LET h1 == _extract_amounts_any(IncentiveText(r))
      h2 == _extract_amounts_any(MaxIncentiveText(r))
  IN [k \in 1..Len(h1) |->
        [program_id |-> pid, source |-> PyStrOf(h1[k].source), tech |-> PyNone,
         sector |-> PyNone, qualifier |-> h1[k].qualifier,
         amount |-> h1[k].amount, units |-> PyStrOf(h1[k].units),
         notes |-> PyStrOf(PyOr(h1[k].notes, PyLit("")))]]
     \o
     [k \in 1..Len(h2) |->
        [program_id |-> pid, source |-> PyStrOf(h2[k].source), tech |-> PyNone,
         sector |-> PyNone,
         qualifier |-> PyStrOf(PyOr(h2[k].qualifier, PyLit("cap"))),
         amount |-> h2[k].amount,
         units |-> PyStrOf(PyOr(h2[k].units, PyLit("USD"))),
         notes |-> PyStrOf(PyOr(h2[k].notes, PyLit("")))]]

\* the exception the construction of a row raises, "" when it raises none:
\* the arguments are evaluated, then pydantic validates them
RowExc(row, valid) ==
  IF \E f \in DOMAIN row \ {"amount"} : row[f] = PyTypeError THEN "TypeError"
  ELSE IF ~valid THEN "ValidationError" ELSE ""

\* the parameter rows that cannot be constructed
BadRows(ps) == {k \in DOMAIN ps : RowExc(ps[k], ValidParameterRow(ps[k])) /= ""}

\* the exception of the first row that cannot be constructed, "" when all
\* can: the ProgramRow is constructed first, then the parameter rows in order
FirstExc(row, ps, bad) ==
  IF RowExc(row, ValidProgramRow(row)) /= "" THEN RowExc(row, ValidProgramRow(row))
  ELSE IF bad = {} THEN ""
  ELSE LET first == CHOOSE k \in bad : \A j \in bad : k <= j
       IN RowExc(ps[first], ValidParameterRow(ps[first]))

\* what one pass appends when its rows are row and ps, or what it raises
RowsOrExc(row, ps, exc) ==
  IF exc /= "" THEN [exc |-> exc, prog |-> <<>>, params |-> <<>>]
  ELSE [exc |-> "", prog |-> <<row>>, params |-> ps]

RowsOf(row, ps) == RowsOrExc(row, ps, FirstExc(row, ps, BadRows(ps)))

\* the body of the for loop for a record whose identifier is pid
RecordRows(r, pid) ==
  IF pid = PyNone
  THEN [exc |-> "", prog |-> <<>>, params |-> <<>>]
  ELSE RowsOf(ProgramRowOf(r, pid), StructuredRows(r, pid) \o DerivedRows(r, pid))

\* one pass of the for loop over records: what it appends, or what it raises
RecordStep(r) == RecordRows(r, ResolvePid(r))

(* ------------------------- tables and files -------------------------- *)
\* pd.DataFrame(list of dicts): the columns are the keys of the dicts, so a
\* frame built from no dict has no column
DataFrame(rows) ==
  [columns |-> IF rows = <<>> THEN {} ELSE DOMAIN rows[1], rows |-> rows]

NoDf == DataFrame(<<>>)

\* ValLess with na_position="first"
ValLessNullsFirst(a, b) == b /= PyNone /\ (a = PyNone \/ a.v < b.v)

\* ascending order of one sort column, nulls last (na_position="last")
ValLess(a, b) == a /= PyNone /\ (b = PyNone \/ a.v < b.v)

\* the order of sort_values(["state", "program_name"])
KeyLess(x, y) ==
  \/ ValLess(x.state, y.state)
  \/ x.state = y.state /\ ValLess(x.program_name, y.program_name)

\* sort_values on two columns: a stable sort, each row placed behind the
\* rows already placed whose key is not greater
SortValues(rows) ==
  LET insert(s, x) ==
        LET n == Cardinality({j \in DOMAIN s : ~KeyLess(x, s[j])})
        IN SubSeq(s, 1, n) \o <<x>> \o SubSeq(s, n + 1, Len(s))
      RECURSIVE go(_)
      go(k) == IF k = 0 THEN <<>> ELSE insert(go(k - 1), rows[k])
  IN go(Len(rows))

\* the cells of a frame that hold Python values (amount holds the float)
ValueCols(row) == DOMAIN row \ {"amount"}

MapCells(df, f(_)) ==
  [columns |-> df.columns,
   rows |-> [k \in DOMAIN df.rows |->
               [c \in DOMAIN df.rows[k] |->
                  IF c \in ValueCols(df.rows[k]) THEN f(df.rows[k][c])
                  ELSE df.rows[k][c]]]]

\* to_csv(index=False): a null cell is written as an empty field
CsvField(x) == IF x = PyNone THEN PyStr(0) ELSE x
ToCsv(df) == MapCells(df, CsvField)

\* read_csv: an empty field is read as a null cell
CsvCell(x) == IF x.ty = "str" /\ x.v = 0 THEN PyNone ELSE x
ReadCsv(file) == MapCells(file, CsvCell)

\* to_parquet refuses an object column holding both ints and strings
ParquetOk(df) ==
  \A j, k \in DOMAIN df.rows : df.rows[j].program_id.ty = df.rows[k].program_id.ty

NoFile == [ex |-> FALSE, df |-> NoDf]
File(df) == [ex |-> TRUE, df |-> df]

(* ----------------------------- outcomes ------------------------------ *)
NoOutcome == [status |-> "none", exc |-> "", programs_df |-> NoDf,
              parameters_df |-> NoDf]
Returned(p, q) == [status |-> "ok", exc |-> "", programs_df |-> p,
                   parameters_df |-> q]
Raised(e) == [status |-> "raised", exc |-> e, programs_df |-> NoDf,
              parameters_df |-> NoDf]

\* Assembled with the parameter rows regrouped to follow the sorted programs
AssembledRegrouped(prog, params) ==
  LET sp == SortValues(prog)
      RECURSIVE go(_)
      go(k) == IF k = 0 THEN <<>>
               ELSE go(k - 1)
                      \o SelectSeq(params,
                                   LAMBDA row : row.program_id = sp[k].program_id)
  IN IF prog = <<>> THEN Raised("KeyError")
     ELSE Returned(DataFrame(sp), DataFrame(go(Len(sp))))

\* the last three lines of build_tables: KeyError when prog_rows is empty
\* (the frame has no "state" column), else the two frames
Assembled(prog, params) ==
  IF prog = <<>> THEN Raised("KeyError")
  ELSE Returned(DataFrame(SortValues(prog)), DataFrame(params))

\* pd.read_parquet of both files
ReadParquetPair(pr) == Returned(pr.progs_pq.df, pr.params_pq.df)

\* pd.read_csv of both files: EmptyDataError for a file without columns
ReadCsvPair(pr) ==
  IF pr.progs_csv.df.columns = {} \/ pr.params_csv.df.columns = {}
  THEN Raised("EmptyDataError")
  ELSE Returned(ReadCsv(pr.progs_csv.df), ReadCsv(pr.params_csv.df))

HasParquet(pr) == pr.progs_pq.ex /\ pr.params_pq.ex
HasCsv(pr) == pr.progs_csv.ex /\ pr.params_csv.ex

\* ParseFails of a loader that passes a bad file over
ParseFailsNever(doc) == FALSE

\* json.load raises on this file
ParseFails(doc) == doc.kind = "malformed"

\* load_raw_dir as a function of the directory: the records, or the error
LoadRawDir(dir) ==
  LET names == IF dir.exists THEN SortedGlob(dir.files) ELSE <<>>
      RECURSIVE go(_)
      go(k) == IF k = 0 THEN <<>> ELSE go(k - 1) \o _unwrap(dir.files[names[k]])
  IN [exc |-> IF \E k \in DOMAIN names : ParseFails(dir.files[names[k]])
              THEN "JSONDecodeError" ELSE "",
      recs |-> go(Len(names))]

\* build_tables as a function of the directory
BuildTables(dir) ==
  LET ld == LoadRawDir(dir)
      rs == ld.recs
      bad == {k \in DOMAIN rs : RecordStep(rs[k]).exc /= ""}
      RECURSIVE prog(_), params(_)
      prog(k) == IF k = 0 THEN <<>> ELSE prog(k - 1) \o RecordStep(rs[k]).prog
      params(k) == IF k = 0 THEN <<>>
                   ELSE params(k - 1) \o RecordStep(rs[k]).params
  IN IF ld.exc /= "" THEN Raised(ld.exc)
     ELSE IF bad /= {}
          THEN Raised(RecordStep(rs[CHOOSE k \in bad : \A j \in bad : k <= j]).exc)
          ELSE Assembled(prog(Len(rs)), params(Len(rs)))

(* ------------------------------ inputs ------------------------------- *)
Entry(amount, units) == [amount |-> amount, units |-> units, qualifier |-> PyNone]
Tech(n, c) == [name |-> n, category |-> c]
Named(n) == [name |-> n]
Group(ps) == [technologies |-> <<Named(PyStr(1)), Named(PyStr(1)), Named(PyStr(2))>>,
              sectors |-> <<>>, parameters |-> ps]
Detail(l, toks) == [label |-> l, value |-> PyText(toks)]

\* a record yielding one structured row, one incentive-text row and one
\* maximum-incentive row when it has an identifier
SomeParams == <<Group(<<Entry(PyInt(7), PyStr(3)), Entry(PyNone, PyStr(3))>>)>>
SomeDetails == <<Detail("Incentive Amount", <<"<b>", "$2/W">>),
                 Detail("Maximum Incentive ", <<"up to $2500">>)>>

\* a record of no key at all
BaseRec ==
  [ProgramId |-> PyNone, ProgramID |-> PyNone, Id |-> PyNone, Code |-> PyNone,
   Name |-> PyNone, State |-> PyNone, Administrator |-> PyNone,
   ImplementingSectorName |-> PyNone, CategoryName |-> PyNone,
   TypeName |-> PyNone, WebsiteUrl |-> PyNone, ProgramURL |-> PyNone,
   Website |-> PyNone, FundingSource |-> PyNone, Budget |-> PyNone,
   StartDate |-> PyNone, EffectiveDate |-> PyNone, EndDate |-> PyNone,
   ExpirationDate |-> PyNone, LastUpdate |-> PyNone, LastUpdated |-> PyNone,
   Technologies |-> <<>>, Sectors |-> <<>>, Utilities |-> <<>>,
   Details |-> <<>>, ProgramParameters |-> <<>>]

Rec(a, b, c, st, nm, pp, dd) ==
  [BaseRec EXCEPT !.ProgramId = a, !.ProgramID = b, !.Id = c, !.State = st,
                  !.Name = nm, !.ProgramParameters = pp, !.Details = dd]

(* records for the row-level claims: each family varies one part of a      *)
(* record that has an identifier                                            *)
MaxEntries == 2   \* entries of one parameter group
MaxDetails == 3   \* entries of a record's Details list
MaxToks    == 2   \* phrases of one narrative text
MaxItems   == 3   \* items of a multi-valued nested list

EntryQ(amount, units, q) == [amount |-> amount, units |-> units, qualifier |-> q]
GroupOf(ts, ss, ps) == [technologies |-> ts, sectors |-> ss, parameters |-> ps]
DetailNone(l) == [label |-> l, value |-> PyNone]
Util(n, e) == [name |-> n, EIA_id |-> e]

\* entries: valid, without amount, without units, with an amount that is no
\* number, with a number spelt as a string, with a zero amount and empty
\* units, with a qualifier and numeric units, with a qualifier of a wrong type
ParamEntries ==
  {Entry(PyInt(7), PyStr(3)), Entry(PyNone, PyStr(3)), Entry(PyInt(7), PyNone),
   Entry(PyStr(3), PyStr(3)), Entry(PyNumStr(2), PyStr(3)),
   Entry(PyInt(0), PyStr(0)), EntryQ(PyInt(5), PyInt(9), PyStr(4)),
   EntryQ(PyInt(6), PyStr(3), PyInt(1))}

GroupGood == GroupOf(<<Named(PyStr(2))>>, <<Named(PyStr(1))>>,
                     <<Entry(PyInt(8), PyStr(3))>>)
GroupBad  == GroupOf(<<>>, <<>>, <<Entry(PyNone, PyStr(3))>>)

RowRec(pp, dd) == Rec(PyInt(1), PyNone, PyNone, PyStr(1), PyStr(1), pp, dd)

ParamRecords ==
  UNION {{RowRec(<<Group(ps)>>, SomeDetails),
          RowRec(<<Group(ps), GroupGood>>, SomeDetails),
          RowRec(<<GroupBad, Group(ps)>>, SomeDetails)} :
            ps \in SeqsUpTo(ParamEntries, MaxEntries)}

\* Details entries: labels that trim to "Maximum Incentive" or to nothing,
\* values that strip to a text or to nothing, an entry without value, and
\* an entry of another label
DetailEntries ==
  {Detail(l, v) : l \in {"Maximum Incentive", "Maximum Incentive ", " "},
                  v \in {<<"up to $2500">>, <<"<b>", " ">>,
                         <<"<br>", "50%", "&amp;">>}}
  \cup {DetailNone("Maximum Incentive"),
        Detail("Equipment Requirements", <<"solar", "<br/>">>)}

DetailRecords == {RowRec(<<>>, dd) : dd \in SeqsUpTo(DetailEntries, MaxDetails)}

\* narrative texts over the phrases the patterns match, and one they do not
Phrases == {"$5/kW", "$1/kWh", "$2/W", "50%", "up to $2500", "up to $3/kW", "solar"}
Texts == SeqsUpTo(Phrases, MaxToks)

TextRecords ==
  UNION {{RowRec(SomeParams, <<Detail(l, t)>>),
          RowRec(<<>>, <<Detail(l, t), Detail("Maximum Incentive", <<"$5/kW">>)>>),
          RowRec(<<>>, <<Detail("Maximum Incentive", t), Detail(l, <<"50%">>)>>)} :
            l \in {"Incentive Amount", "Incentive", "Benefit Details"},
            t \in Texts}
  \cup {RowRec(<<>>, <<Detail("Incentive Amount", t), Detail("Maximum Incentive", t)>>) :
           t \in Texts}

\* date candidates: absent, empty, unparseable, two parseable, a number
DateValues == {PyNone, PyStr(0), PyStr(3), PyDateStr(1), PyDateStr(2), PyInt(5)}

DateRecords ==
  UNION {{[RowRec(<<>>, <<>>) EXCEPT !.StartDate = a, !.EffectiveDate = b],
          [RowRec(<<>>, <<>>) EXCEPT !.EndDate = a, !.ExpirationDate = b],
          [RowRec(<<>>, <<>>) EXCEPT !.LastUpdate = a, !.LastUpdated = b]} :
            a \in DateValues, b \in DateValues}

\* nested lists: items with a name twice, without a name, with an empty
\* name, with a name that is no string
TechItems == {Tech(PyStr(1), PyStr(5)), Tech(PyStr(2), PyStr(5)),
              Tech(PyNone, PyStr(6)), Tech(PyStr(0), PyNone)}
NameItems == {Named(PyStr(1)), Named(PyStr(2)), Named(PyNone), Named(PyInt(5))}
UtilItems == {Util(PyStr(1), PyInt(7)), Util(PyStr(2), PyInt(0)),
              Util(PyNone, PyStr(8)), Util(PyStr(1), PyNone)}

ListRecords ==
  {[RowRec(<<>>, <<>>) EXCEPT !.Technologies = ts] : ts \in SeqsUpTo(TechItems, MaxItems)}
  \cup {[RowRec(<<>>, <<>>) EXCEPT !.Sectors = ss] : ss \in SeqsUpTo(NameItems, MaxItems)}
  \cup {[RowRec(<<>>, <<>>) EXCEPT !.Utilities = us] : us \in SeqsUpTo(UtilItems, MaxItems)}
  \cup {RowRec(<<GroupOf(ts, ts, <<Entry(PyInt(7), PyStr(3))>>)>>, <<>>) :
           ts \in SeqsUpTo(NameItems, MaxItems)}

\* records whose states sort against their encounter order, each with
\* structured, incentive-text and maximum-incentive rows
OrderRecords ==
  {Rec(PyInt(i), PyNone, PyNone, PyStr(3 - i), PyStr(1),
       <<Group(<<Entry(PyInt(i), PyStr(3))>>), GroupGood>>,
       <<Detail("Incentive", <<"50%", "$5/kW">>),
         Detail("Maximum Incentive", <<"up to $3/kW">>)>>) : i \in 1..2}
  \cup {Rec(PyNone, PyNone, PyNone, PyStr(1), PyStr(1), SomeParams, SomeDetails),
        Rec(PyInt(3), PyNone, PyNone, PyNone, PyStr(2), <<>>, <<>>)}

\* records that differ in their identifier aliases
IdRecords ==
  {Rec(t[1], t[2], t[3], PyStr(1), PyStr(1), SomeParams, SomeDetails) :
     t \in {<<PyNone, PyNone, PyNone>>, <<PyInt(1), PyNone, PyNone>>,
            <<PyNone, PyStr(2), PyNone>>, <<PyNone, PyNone, PyInt(3)>>,
            <<PyInt(0), PyNone, PyInt(3)>>, <<PyInt(0), PyNone, PyNone>>,
            <<PyInt(0), PyNone, PyInt(0)>>, <<PyInt(1), PyStr(2), PyInt(3)>>,
            <<PyList(1), PyNone, PyNone>>}}

\* records that differ in their sort columns
SortRecords ==
  {Rec(PyInt(i), PyNone, PyNone, st, nm, <<>>, <<>>) :
     i \in 1..2, st \in {PyNone, PyStr(1), PyStr(2)}, nm \in {PyNone, PyStr(1)}}
  \cup {Rec(PyInt(1), PyNone, PyNone, PyStr(1), PyInt(5), <<>>, <<>>)}

RecA == Rec(PyInt(1), PyNone, PyNone, PyStr(2), PyStr(1), SomeParams, <<>>)
RecB == Rec(PyStr(2), PyNone, PyNone, PyStr(1), PyStr(1), <<>>, SomeDetails)
RecC == Rec(PyInt(3), PyNone, PyNone, PyNone, PyStr(2), <<>>, <<>>)

ListDoc(items) == [kind |-> "list", items |-> items]
Malformed == [kind |-> "malformed"]
Scalar == [kind |-> "scalar"]
NoKey == [present |-> FALSE, isList |-> FALSE, items |-> <<>>]
ListAt(items) == [present |-> TRUE, isList |-> TRUE, items |-> items]
NonList == [present |-> TRUE, isList |-> FALSE, items |-> <<>>]
DictDoc(p, r, d, i) == [kind |-> "dict", Programs |-> p, results |-> r,
                        data |-> d, items |-> i, rec |-> RecC]

\* documents that differ in their top-level shape
LoadDocs ==
  {Malformed, Scalar, ListDoc(<<>>), ListDoc(<<RecA>>), ListDoc(<<RecB, RecA>>),
   DictDoc(ListAt(<<RecA>>), ListAt(<<RecB>>), NoKey, NoKey),
   DictDoc(NonList, ListAt(<<RecB>>), NoKey, ListAt(<<RecA>>)),
   DictDoc(NoKey, NoKey, ListAt(<<RecA, RecB>>), ListAt(<<RecB>>)),
   DictDoc(NoKey, NoKey, NoKey, ListAt(<<RecB>>)),
   DictDoc(NonList, NoKey, NoKey, NoKey),
   DictDoc(NoKey, NoKey, NoKey, NoKey)}

\* what the DSIRE API may answer to the fetch CLI
FetchDocs == {ListDoc(<<RecA>>), DictDoc(ListAt(<<RecB>>), NoKey, NoKey, NoKey)}

Dir(files) == [exists |-> TRUE, files |-> files]
NoDir == [exists |-> FALSE, files |-> <<>>]

NoProcessed == [progs_pq |-> NoFile, params_pq |-> NoFile,
                progs_csv |-> NoFile, params_csv |-> NoFile]

(* ------------------------------ actions ------------------------------ *)
Idle == pc \in {"idle", "done"}

\* the call ends: its frame is dropped, its result or exception is kept
Finish(out) ==
  /\ outcome' = out
  /\ pc' = "done"
  /\ todo' = <<>> /\ recs' = <<>> /\ idx' = 0
  /\ prog_rows' = <<>> /\ param_rows' = <<>>

\* load_raw_dir up to its for loop: no records for a missing directory
StartLoad(o, f) ==
  LET files == IF raw_dir.exists THEN SortedGlob(raw_dir.files) ELSE <<>>
  IN /\ op' = o /\ fmt' = f
     /\ outcome' = NoOutcome
     /\ todo' = files
     /\ pc' = IF files = <<>> THEN "build" ELSE "load"
     /\ recs' = <<>> /\ idx' = 0 /\ prog_rows' = <<>> /\ param_rows' = <<>>

\* build_tables(version_tag, project_root) is called
CallBuildTables ==
  /\ UNCHANGED <<cli, req>>
  /\ Idle
  /\ StartLoad("build_tables", "")
  /\ UNCHANGED <<raw_dir, processed, memo>>

\* write_processed(version_tag, project_root, fmt) is called
CallWriteProcessed ==
  /\ UNCHANGED <<cli, req>>
  /\ Idle
  /\ \E f \in {"csv", "parquet"} : StartLoad("write_processed", f)
  /\ UNCHANGED <<raw_dir, processed, memo>>

\* one pass of load_raw_dir's loop over the sorted files
LoadFile ==
  /\ UNCHANGED <<cli, req>>
  /\ pc = "load"
  /\ LET doc == raw_dir.files[Head(todo)]
     IN IF ParseFails(doc)
        THEN Finish(Raised("JSONDecodeError")) /\ UNCHANGED <<op, fmt>>
        ELSE /\ recs' = recs \o _unwrap(doc)
             /\ todo' = Tail(todo)
             /\ pc' = IF Tail(todo) = <<>> THEN "build" ELSE "load"
             /\ UNCHANGED <<op, fmt, idx, prog_rows, param_rows, outcome>>
  /\ UNCHANGED <<raw_dir, processed, memo>>

\* one pass of build_tables' loop over the records
BuildRecord ==
  /\ UNCHANGED <<cli, req>>
  /\ pc = "build" /\ idx < Len(recs)
  /\ LET st == RecordStep(recs[idx + 1])
     IN IF st.exc /= ""
        THEN Finish(Raised(st.exc)) /\ UNCHANGED <<op, fmt>>
        ELSE /\ idx' = idx + 1
             /\ prog_rows' = prog_rows \o st.prog
             /\ param_rows' = param_rows \o st.params
             /\ UNCHANGED <<op, fmt, pc, todo, recs, outcome>>
  /\ UNCHANGED <<raw_dir, processed, memo>>

\* the end of build_tables: the frames go to the caller, and
\* load_processed_or_build's result is memoised by st.cache_data
Assemble ==
  /\ UNCHANGED <<cli, req>>
  /\ pc = "build" /\ idx = Len(recs)
  /\ LET out == Assembled(prog_rows, param_rows)
     IN IF op = "write_processed" /\ out.status = "ok"
        THEN /\ outcome' = out
             /\ pc' = "write"
             /\ todo' = <<>> /\ recs' = <<>> /\ idx' = 0
             /\ prog_rows' = <<>> /\ param_rows' = <<>>
             /\ UNCHANGED memo
        ELSE /\ Finish(out)
             /\ memo' = IF op = "load_processed_or_build" /\ out.status = "ok"
                        THEN out ELSE memo
  /\ UNCHANGED <<raw_dir, processed, op, fmt>>

\* write_processed after build_tables returned: both files of the format
WriteFiles ==
  /\ UNCHANGED <<cli, req>>
  /\ pc = "write"
  /\ IF fmt = "csv"
     THEN /\ processed' = [processed EXCEPT
                             !.progs_csv = File(ToCsv(outcome.programs_df)),
                             !.params_csv = File(ToCsv(outcome.parameters_df))]
          /\ Finish(Returned(NoDf, NoDf))
     ELSE IF ParquetOk(outcome.programs_df) /\ ParquetOk(outcome.parameters_df)
          THEN /\ processed' = [processed EXCEPT
                                  !.progs_pq = File(outcome.programs_df),
                                  !.params_pq = File(outcome.parameters_df)]
               /\ Finish(Returned(NoDf, NoDf))
          ELSE /\ Finish(Raised("ArrowTypeError"))
               /\ UNCHANGED processed
  /\ UNCHANGED <<raw_dir, memo, op, fmt>>

\* LoadBranch preferring the delimited-text files
LoadBranchCsvFirst(pr) ==
  IF HasCsv(pr) THEN "csv" ELSE IF HasParquet(pr) THEN "parquet" ELSE "build"

\* the return statement load_processed_or_build's body reaches
LoadBranch(pr) ==
  IF HasParquet(pr) THEN "parquet" ELSE IF HasCsv(pr) THEN "csv" ELSE "build"

\* load_processed_or_build(version_tag) is called: st.cache_data answers a
\* call it has a value for, else the body runs
CallLoadProcessedOrBuild ==
  /\ UNCHANGED <<cli, req>>
  /\ Idle
  /\ IF memo.status = "ok"
     THEN /\ Finish(memo)
          /\ op' = "load_processed_or_build" /\ fmt' = ""
          /\ UNCHANGED memo
     ELSE IF LoadBranch(processed) = "build"
          THEN StartLoad("load_processed_or_build", "") /\ UNCHANGED memo
          ELSE LET out == IF LoadBranch(processed) = "parquet"
                          THEN ReadParquetPair(processed)
                          ELSE ReadCsvPair(processed)
               IN /\ Finish(out)
                  /\ op' = "load_processed_or_build" /\ fmt' = ""
                  /\ memo' = IF out.status = "ok" THEN out ELSE memo
  /\ UNCHANGED <<raw_dir, processed>>

\* update_dsire.main's loop body: a chunk whose file does not exist is
\* fetched and written
FetchChunk ==
  /\ UNCHANGED <<cli, req>>
  /\ Idle
  /\ Cardinality({n \in DOMAIN raw_dir.files : GlobMatches(n)}) < MaxFetch + 1
  /\ \E n \in 1..(MaxFetch + 1), data \in FetchDocs :
       /\ n \notin DOMAIN raw_dir.files
       /\ raw_dir' = Dir([m \in DOMAIN raw_dir.files \cup {n} |->
                            IF m = n THEN data ELSE raw_dir.files[m]])
  /\ UNCHANGED <<processed, memo, op, fmt, pc, todo, recs, idx, prog_rows,
                 param_rows, outcome>>

(* ------------------ the fetch CLI and its client --------------------- *)
MaxMonths  == 2   \* months of the calendar
MonthLen   == 3   \* days of a month
MaxRuns    == 3   \* runs of the fetch CLI
MaxRetries == 3   \* the largest max_retries a client is configured with
MaxBackoff == 2   \* the largest backoff_sec a client is configured with

\* DsireClient.__init__'s defaults
DefaultRetries == 3
DefaultBackoff == 2
\* "20100101", the first day of the calendar
DefaultStart == 0

\* a day is its number in the calendar, a month its number
NDays == MaxMonths * MonthLen
Days == 0..(NDays - 1)
MonthOf(d) == d \div MonthLen
MonthStart(m) == m * MonthLen
MonthEnd(m) == m * MonthLen + MonthLen - 1
Min(a, b) == IF a <= b THEN a ELSE b

\* month_chunks: from the first day of start's month, one chunk per month
\* up to end's month, a chunk ending with its month or with end
month_chunks(start, end) ==
  [k \in 1..(MonthOf(end) - MonthOf(start) + 1) |->
     LET m == MonthOf(start) + k - 1
     IN <<MonthStart(m), Min(MonthEnd(m), end)>>]

\* dsire_programs_<s>_<e>.json.gz as a file name of raw_dir: the order of
\* the naturals is the order of the names
FileName(c) == 1 + c[1] * NDays + c[2]
\* the date range a file name states
RangeOf(n) == <<(n - 1) \div NDays, (n - 1) % NDays>>

\* no saved state, no run
CliIdle == [pc |-> "idle", runs |-> 0, saved |-> FALSE, last_end |-> 0,
            end |-> 0, chunks |-> <<>>]

\* what a call of _request has not got (Python's None)
NoBody == [kind |-> "none"]

\* a client constructed with max_retries mr and backoff_sec b
Client(mr, b) ==
  [pc |-> "idle", max_retries |-> mr, backoff_sec |-> b, attempt |-> 0,
   errors |-> <<>>, sleeps |-> <<>>, received |-> FALSE, exc |-> "",
   result |-> NoBody]

\* what session.get, raise_for_status and resp.json() make of one attempt
Responses ==
  {[ok |-> TRUE, body |-> d, exc |-> ""] : d \in FetchDocs}
  \cup {[ok |-> FALSE, body |-> NoBody, exc |-> e] :
          e \in {"ConnectionError", "HTTPError", "JSONDecodeError"}}

\* _request is entered: range(1, max_retries + 1) is empty for a
\* max_retries below 1, and the function then ends without a return statement
StartRequest(r) ==
  IF r.max_retries < 1
  THEN [Client(r.max_retries, r.backoff_sec) EXCEPT !.pc = "returned"]
  ELSE [Client(r.max_retries, r.backoff_sec) EXCEPT !.pc = "try", !.attempt = 1]

\* one pass of _request's for loop
AttemptResult(r, o) ==
  IF o.ok
  THEN [r EXCEPT !.pc = "returned", !.received = TRUE, !.result = o.body]
  ELSE IF r.attempt = r.max_retries
       THEN [r EXCEPT !.pc = "raised", !.errors = Append(@, o.exc), !.exc = o.exc]
       ELSE [r EXCEPT !.errors = Append(@, o.exc),
                      !.sleeps = Append(@, r.backoff_sec * r.attempt),
                      !.attempt = @ + 1]

\* json.dump of what _request returned (None is written as null)
Written(body) == IF body = NoBody THEN Scalar ELSE body

\* client._request(url) is called directly
CallRequest ==
  /\ cli.pc = "idle" /\ req.pc \in {"idle", "returned", "raised"}
  /\ req' = StartRequest(req)
  /\ UNCHANGED <<raw_dir, processed, memo, op, fmt, pc, todo, recs, idx,
                 prog_rows, param_rows, outcome, cli>>

\* one attempt of the _request in progress
Attempt ==
  /\ req.pc = "try"
  /\ \E o \in Responses : req' = AttemptResult(req, o)
  /\ UNCHANGED <<raw_dir, processed, memo, op, fmt, pc, todo, recs, idx,
                 prog_rows, param_rows, outcome, cli>>

\* main without --start, up to its for loop: the start is the saved
\* last_end or the default, the version directory is created, the chunks
\* are listed
RunMain ==
  /\ Idle /\ cli.pc = "idle" /\ cli.runs < MaxRuns
  /\ \E end \in Days :
       LET start == IF cli.saved THEN cli.last_end ELSE DefaultStart
       IN cli' = [cli EXCEPT !.pc = "loop", !.runs = @ + 1, !.end = end,
                             !.chunks = month_chunks(start, end)]
  /\ raw_dir' = Dir(raw_dir.files)
  /\ UNCHANGED <<processed, memo, op, fmt, pc, todo, recs, idx, prog_rows,
                 param_rows, outcome, req>>

\* one pass of main's for loop up to the request: a chunk whose file exists
\* is passed over, another one is asked from the API
FetchStep ==
  /\ cli.pc = "loop" /\ cli.chunks /= <<>>
  /\ IF FileName(Head(cli.chunks)) \in DOMAIN raw_dir.files
     THEN cli' = [cli EXCEPT !.chunks = Tail(@)] /\ UNCHANGED req
     ELSE cli' = [cli EXCEPT !.pc = "fetch"] /\ req' = StartRequest(req)
  /\ UNCHANGED <<raw_dir, processed, memo, op, fmt, pc, todo, recs, idx,
                 prog_rows, param_rows, outcome>>

\* the request returned: write_json_gz(data, fname), and on to the next chunk
WriteChunk ==
  /\ cli.pc = "fetch" /\ req.pc = "returned"
  /\ LET n == FileName(Head(cli.chunks))
     IN raw_dir' = Dir([m \in DOMAIN raw_dir.files \cup {n} |->
                          IF m = n THEN Written(req.result) ELSE raw_dir.files[m]])
  /\ cli' = [cli EXCEPT !.pc = "loop", !.chunks = Tail(@)]
  /\ UNCHANGED <<processed, memo, op, fmt, pc, todo, recs, idx, prog_rows,
                 param_rows, outcome, req>>

\* the request raised: main ends with the exception, the state is not saved
AbortRun ==
  /\ cli.pc = "fetch" /\ req.pc = "raised"
  /\ cli' = [cli EXCEPT !.pc = "idle", !.chunks = <<>>]
  /\ UNCHANGED <<raw_dir, processed, memo, op, fmt, pc, todo, recs, idx,
                 prog_rows, param_rows, outcome, req>>

\* the for loop is over: save_state(yyyymmdd(end))
SaveState ==
  /\ cli.pc = "loop" /\ cli.chunks = <<>>
  /\ cli' = [cli EXCEPT !.pc = "idle", !.saved = TRUE, !.last_end = cli.end]
  /\ UNCHANGED <<raw_dir, processed, memo, op, fmt, pc, todo, recs, idx,
                 prog_rows, param_rows, outcome, req>>

(* -------------------------- specifications --------------------------- *)
InitCore ==
  /\ processed = NoProcessed /\ memo = NoOutcome
  /\ op = "" /\ fmt = "" /\ pc = "idle"
  /\ todo = <<>> /\ recs = <<>> /\ idx = 0
  /\ prog_rows = <<>> /\ param_rows = <<>>
  /\ outcome = NoOutcome
  /\ cli = CliIdle

\* the client main constructs has the default configuration
InitCall ==
  /\ InitCore
  /\ req = Client(DefaultRetries, DefaultBackoff)

\* the fetch CLI run on a project that has no version directory yet
InitFetch ==
  /\ raw_dir = NoDir
  /\ InitCall

\* a client of any configuration
InitRequest ==
  /\ raw_dir = NoDir
  /\ InitCore
  /\ req \in {Client(mr, b) : mr \in 0..MaxRetries, b \in 1..MaxBackoff}

\* one snapshot file holding a list of records
InitBuild ==
  /\ raw_dir \in {Dir([n \in {1} |-> ListDoc(rs)]) :
                    rs \in SeqsUpTo(IdRecords, MaxRecs)
                           \cup SeqsUpTo(SortRecords, MaxRecs)}
  /\ InitCall

\* one snapshot file holding one record of a row-level family, or a few
\* records whose order matters
InitRows ==
  /\ raw_dir \in {Dir([n \in {1} |-> ListDoc(rs)]) :
                    rs \in {<<r>> : r \in ParamRecords \cup DetailRecords
                                         \cup TextRecords \cup DateRecords
                                         \cup ListRecords}
                           \cup SeqsUpTo(OrderRecords, MaxRecs)}
  /\ InitCall

\* a version directory of files of every shape, or none
InitLoad ==
  /\ raw_dir \in {NoDir} \cup
       {Dir(f) : f \in UNION {[S -> LoadDocs] : S \in SUBSET (0..MaxFiles)}}
  /\ InitCall

InitApp ==
  /\ raw_dir \in {NoDir, Dir([n \in {1} |-> Malformed]),
                  Dir([n \in {2} |-> Malformed]),
                  Dir([n \in {1} |-> ListDoc(<<RecA>>)]),
                  Dir([n \in {1} |-> ListDoc(<<RecC>>)]),
                  Dir([n \in {1} |-> ListDoc(<<RecB, RecA>>)])}
  /\ InitCall

NextBuild == CallBuildTables \/ LoadFile \/ BuildRecord \/ Assemble

Next ==
  \/ CallBuildTables \/ CallWriteProcessed \/ CallLoadProcessedOrBuild
  \/ LoadFile \/ BuildRecord \/ Assemble \/ WriteFiles \/ FetchChunk

Spec == InitBuild /\ [][NextBuild]_vars
SpecRows == InitRows /\ [][NextBuild]_vars
SpecLoad == InitLoad /\ [][NextBuild]_vars
SpecApp == InitApp /\ [][Next]_vars

NextFetch ==
  RunMain \/ FetchStep \/ Attempt \/ WriteChunk \/ AbortRun \/ SaveState
NextRequest == CallRequest \/ Attempt

SpecFetch == InitFetch /\ [][NextFetch]_vars
SpecRequest == InitRequest /\ [][NextRequest]_vars

(* ------------------------------ claims ------------------------------- *)
\* the for loop of build_tables is about to handle recs[idx + 1]
AtRecord == pc = "build" /\ idx < Len(recs)
\* build_tables is about to assemble and return its frames
AtAssemble == pc = "build" /\ idx = Len(recs)
LacksId(r) == r.ProgramId = PyNone /\ r.ProgramID = PyNone /\ r.Id = PyNone
Pids(rows) == {rows[k].program_id : k \in DOMAIN rows}
Sources(rows) == {rows[k].source.lit : k \in DOMAIN rows}
MatchingFiles(dir) == {n \in DOMAIN dir.files : GlobMatches(n)}
HasMalformed ==
  raw_dir.exists /\ \E n \in MatchingFiles(raw_dir) : raw_dir.files[n].kind = "malformed"

\* C1: every parameter row, while the tables are built and in the tables
\* returned, carries the program_id of some program row.
C1_NoOrphanParameterRows ==
  /\ Pids(param_rows) \subseteq Pids(prog_rows)
  /\ outcome.status = "ok" =>
       Pids(outcome.parameters_df.rows) \subseteq Pids(outcome.programs_df.rows)

C1_Witness ==
  /\ op = "build_tables" /\ pc = "done" /\ outcome.status = "ok"
  /\ Cardinality(Pids(outcome.parameters_df.rows)) >= 2
  /\ Sources(outcome.parameters_df.rows) = {"ProgramParameters", "DerivedFromDetails"}

\* C2: handling a record that has none of the identifier aliases leaves
\* prog_rows and param_rows as they are, and the programs table returned has
\* at most one row per record that has an alias.
C2_NoIdentifierNoRows ==
  [][/\ (AtRecord /\ LacksId(recs[idx + 1])) =>
          idx' = idx + 1 /\ prog_rows' = prog_rows /\ param_rows' = param_rows
     /\ (AtAssemble /\ outcome'.status = "ok") =>
          Len(outcome'.programs_df.rows)
            <= Cardinality({k \in DOMAIN recs : ~LacksId(recs[k])})]_vars

C2_Witness ==
  /\ AtAssemble /\ prog_rows /= <<>> /\ param_rows /= <<>>
  /\ \E k \in DOMAIN recs :
       /\ LacksId(recs[k])
       /\ recs[k].ProgramParameters /= <<>> /\ recs[k].Details /= <<>>

\* the first alias, in the order ProgramId, ProgramID, Id, that holds a value
FirstAlias(r) ==
  IF r.ProgramId /= PyNone THEN r.ProgramId
  ELSE IF r.ProgramID /= PyNone THEN r.ProgramID ELSE r.Id

\* C3: a record that is handled without an error is passed over only if no
\* alias holds a value; otherwise it appends exactly one ProgramRow whose
\* program_id is the value of the first alias holding one.
C3_FirstAliasWins ==
  [][(AtRecord /\ pc' = "build") =>
       IF LacksId(recs[idx + 1]) THEN prog_rows' = prog_rows
       ELSE /\ Len(prog_rows') = Len(prog_rows) + 1
            /\ prog_rows'[Len(prog_rows')].program_id = FirstAlias(recs[idx + 1])
            /\ prog_rows'[Len(prog_rows')].program_id /= PyNone]_vars

\* C4: a build over well-formed JSON files returns two tables, whatever the
\* records hold.
C4_BuilderNeverRaises ==
  (op = "build_tables" /\ pc = "done" /\ ~HasMalformed) => outcome.status = "ok"

ProgramRowFields ==
  {"program_id", "program_code", "program_name", "state", "administrator",
   "implementing_sector_name", "category_name", "type_name", "website_url",
   "funding_source", "budget_text", "start_date", "end_date", "last_updated",
   "technologies", "technology_categories", "sectors", "utilities",
   "utilities_eia_ids", "incentive_text", "max_incentive_text",
   "equipment_requirements", "installation_requirements", "eligibility_text",
   "rec_ownership_text"}
ParameterRowFields == {"program_id", "source", "tech", "sector", "qualifier",
                       "amount", "units", "notes"}

\* C5: every build over well-formed JSON files, the missing directory
\* included, returns tables with one column per row-model field.
C5_SchemaIsFixed ==
  (op = "build_tables" /\ pc = "done" /\ ~HasMalformed) =>
     /\ outcome.status = "ok"
     /\ outcome.programs_df.columns = ProgramRowFields
     /\ outcome.parameters_df.columns = ParameterRowFields

\* x may stand before y in the programs table: state ascending with null
\* last, then program_name ascending with null last
NullLastLeq(a, b) == b = PyNone \/ (a /= PyNone /\ a.v <= b.v)
MayPrecede(x, y) ==
  /\ NullLastLeq(x.state, y.state)
  /\ x.state = y.state => NullLastLeq(x.program_name, y.program_name)
SameKey(x, y) == x.state = y.state /\ x.program_name = y.program_name
Perms(n) == {p \in [1..n -> 1..n] : \A i, j \in 1..n : p[i] = p[j] => i = j}

\* C6: the programs table returned is prog_rows reordered by (state,
\* program_name) ascending, nulls last, rows of equal key in encounter order.
C6_ProgramsSortedStable ==
  [][(AtAssemble /\ outcome'.status = "ok") =>
       LET out == outcome'.programs_df.rows
           n == Len(prog_rows)
       IN /\ Len(out) = n
          /\ \E p \in Perms(n) :
               /\ \A k \in 1..n : out[k] = prog_rows[p[k]]
               /\ \A k, l \in 1..n :
                    k < l => /\ MayPrecede(out[k], out[l])
                             /\ SameKey(out[k], out[l]) => p[k] < p[l]]_vars

C6_Witness ==
  /\ op = "build_tables" /\ pc = "done" /\ outcome.status = "ok"
  /\ LET out == outcome.programs_df.rows
         src == raw_dir.files[1].items
     IN /\ Len(out) = 3 /\ Len(src) = 3
        /\ src[1].State = PyNone /\ out[3].state = PyNone
        /\ src[1].Name /= PyNone /\ out[1].program_name /= PyNone
        /\ SameKey(out[1], out[2])
        /\ out[1].program_id = PyInt(2) /\ out[2].program_id = PyInt(1)

\* the number of records in the matching files of dir named below n
Offset(dir, n) ==
  LET RECURSIVE sum(_)
      sum(T) == IF T = {} THEN 0
                ELSE LET m == CHOOSE x \in T : TRUE
                     IN Len(_unwrap(dir.files[m])) + sum(T \ {m})
  IN sum({m \in MatchingFiles(dir) : m < n})

\* the number of records in all matching files of dir
TotalRecords(dir) ==
  LET top == CHOOSE x \in MatchingFiles(dir) : \A y \in MatchingFiles(dir) : y <= x
  IN IF MatchingFiles(dir) = {} THEN 0
     ELSE Offset(dir, top) + Len(_unwrap(dir.files[top]))

\* C7: the loader's result holds, for every matching file in name order, the
\* file's unwrapped records in their order, and nothing else.
C7_LoaderConcatenatesInNameOrder ==
  (pc = "build" /\ raw_dir.exists) =>
     /\ \A n \in MatchingFiles(raw_dir) :
          \A j \in DOMAIN _unwrap(raw_dir.files[n]) :
             /\ Offset(raw_dir, n) + j \in DOMAIN recs
             /\ recs[Offset(raw_dir, n) + j] = _unwrap(raw_dir.files[n])[j]
     /\ Len(recs) = TotalRecords(raw_dir)

C7_Witness ==
  /\ pc = "build" /\ idx = 0 /\ raw_dir.exists
  /\ Cardinality(MatchingFiles(raw_dir)) = 2
  /\ 0 \in DOMAIN raw_dir.files
  /\ Len(recs) = 3 /\ recs[1] = RecA /\ recs[2] = RecB /\ recs[3] = RecA

\* what the unwrap policy gives for a list or a dict
PolicyUnwrap(obj) ==
  IF obj.kind = "list" THEN obj.items
  ELSE LET hits == {k \in 1..4 :
                      LET c == obj[<<"Programs", "results", "data", "items">>[k]]
                      IN c.present /\ c.isList}
       IN IF hits = {} THEN <<obj.rec>>
          ELSE LET k == CHOOSE x \in hits : \A y \in hits : x <= y
               IN obj[<<"Programs", "results", "data", "items">>[k]].items

\* C8: reading a file that holds a list or a dict extends the records by
\* what the unwrap policy gives for it.
C8_UnwrapPolicy ==
  [][(pc = "load" /\ pc' /= "done"
        /\ raw_dir.files[Head(todo)].kind \in {"list", "dict"}) =>
       recs' = recs \o PolicyUnwrap(raw_dir.files[Head(todo)])]_vars

C8_Witness ==
  /\ pc = "build" /\ idx = 0 /\ raw_dir.exists
  /\ \E n \in MatchingFiles(raw_dir) :
       /\ MatchingFiles(raw_dir) = {n}
       /\ raw_dir.files[n] = DictDoc(NonList, ListAt(<<RecB>>), NoKey, ListAt(<<RecA>>))
  /\ recs = <<RecB>>

\* C9: while a matching file of the directory is malformed, no step writes a
\* processed file and every call that reads the raw files ends raising the
\* parse error, with no table.
C9_MalformedFileIsFatal ==
  [][HasMalformed =>
       /\ processed' = processed
       /\ (pc \in {"load", "build", "write"} /\ pc' = "done") =>
            outcome' = Raised("JSONDecodeError")
       /\ pc' /= "write"]_vars

C9_Witness ==
  /\ op = "write_processed" /\ pc = "done"
  /\ outcome = Raised("JSONDecodeError")
  /\ raw_dir.exists /\ MatchingFiles(raw_dir) = {1, 2}
  /\ raw_dir.files[1].kind /= "malformed" /\ raw_dir.files[2].kind = "malformed"

\* what the load path's body gives: the columnar files if present, else the
\* delimited-text files if present, else a rebuild
BodyResult ==
  IF HasParquet(processed) THEN ReadParquetPair(processed)
  ELSE IF HasCsv(processed) THEN ReadCsvPair(processed)
  ELSE BuildTables(raw_dir)

\* a step on which load_processed_or_build returns or raises
LoadReturns ==
  /\ op' = "load_processed_or_build" /\ pc' = "done"
  /\ Idle \/ op = "load_processed_or_build"
  /\ raw_dir' = raw_dir

\* C10 as stated: every call of load_processed_or_build gives the columnar
\* tables if present, else the delimited-text tables if present, else a
\* rebuild, and writes no processed file.
C10_LoadPathAsStated ==
  [][/\ LoadReturns => outcome' = BodyResult
     /\ op' = "load_processed_or_build" => processed' = processed]_vars

\* C10 amended: a call st.cache_data has a value for gives that value; any
\* other call gives the columnar tables if present, else the delimited-text
\* tables if present, else a rebuild; no call writes a processed file.
C10_LoadPath ==
  [][/\ LoadReturns =>
          outcome' = IF memo.status = "ok" THEN memo ELSE BodyResult
     /\ op' = "load_processed_or_build" => processed' = processed]_vars

C10_Witness ==
  /\ op = "load_processed_or_build" /\ pc = "done"
  /\ HasParquet(processed) /\ HasCsv(processed)
  /\ outcome = ReadParquetPair(processed)
  /\ outcome /= ReadCsvPair(processed)

\* C11: write_processed in the columnar format, run on frames build_tables
\* returned, ends without an error, leaves both files, and reading the files
\* back gives the frames that were built: the same rows, order and values.
C11_RoundTrip ==
  [][(pc = "write" /\ fmt = "parquet") =>
       /\ outcome'.status = "ok"
       /\ HasParquet(processed')
       /\ ReadParquetPair(processed')
            = Returned(outcome.programs_df, outcome.parameters_df)]_vars

\* the rows one pass of the for loop appended to param_rows
Appended == SubSeq(param_rows', Len(param_rows) + 1, Len(param_rows'))
IsStructured(row) == row.source = PyLit("ProgramParameters")
IsDerived(row) == row.source = PyLit("DerivedFromDetails")

\* the entries of a record's parameter groups, group by group
Entries(r) ==
  LET RECURSIVE go(_)
      go(k) == IF k = 0 THEN <<>>
               ELSE go(k - 1) \o r.ProgramParameters[k].parameters
  IN go(Len(r.ProgramParameters))

\* the entry has an amount and units, and the amount is numeric-coercible
EntryOk(p) == p.amount /= PyNone /\ p.units /= PyNone /\ FloatOk(p.amount)

\* C12: a record with an identifier that is handled without an error appends
\* its ProgramRow and exactly one "ProgramParameters" row per entry that has
\* an amount and units and whose amount is numeric-coercible, in the order
\* of the entries; the other entries give no row and stop nothing.
C12_StructuredRowPerValidEntry ==
  [][(AtRecord /\ pc' = "build" /\ ~LacksId(recs[idx + 1])
        /\ Len(prog_rows') = Len(prog_rows) + 1) =>
       LET ok == SelectSeq(Entries(recs[idx + 1]), EntryOk)
           rows == SelectSeq(Appended, IsStructured)
       IN /\ Len(rows) = Len(ok)
          /\ \A k \in DOMAIN rows :
               /\ rows[k].amount = FloatOf(ok[k].amount)
               /\ rows[k].units = PyStrOf(ok[k].units)
               /\ rows[k].qualifier = ok[k].qualifier]_vars

\* a record of two groups was handled: in one group an entry that fails is
\* followed by a valid one, and both groups gave a row
C12_Witness ==
  /\ pc = "build" /\ idx = 1 /\ Len(prog_rows) = 1
  /\ Len(recs[1].ProgramParameters) = 2
  /\ \E g \in DOMAIN recs[1].ProgramParameters :
       LET ps == recs[1].ProgramParameters[g].parameters
       IN Len(ps) = 2 /\ ~EntryOk(ps[1]) /\ EntryOk(ps[2])
  /\ Len(SelectSeq(param_rows, IsStructured)) = 2

\* the entries of dets that contribute to label l: their trimmed label is l
\* and something is left of their value once it is stripped
Contributing(dets, l) ==
  {k \in DOMAIN dets : StripLabel(dets[k].label) = l
                         /\ _strip_html(dets[k].value) /= PyNone}

\* the stripped text of the last contributing entry, None when there is none
LastText(dets, l) ==
  LET C == Contributing(dets, l)
  IN IF C = {} THEN PyNone
     ELSE _strip_html(dets[CHOOSE k \in C : \A j \in C : j <= k].value)

\* a text without mark-up: no tag, no <br>, no entity, no white space at
\* either end, and not empty
IsPlain(txt) ==
  /\ txt.toks /= <<>>
  /\ \A k \in DOMAIN txt.toks : txt.toks[k] \notin TagToks \cup BrToks \cup {"&amp;"}
  /\ txt.toks[1] \notin SpaceToks /\ txt.toks[Len(txt.toks)] \notin SpaceToks

\* the ProgramRow one pass of the for loop appended
NewRow == prog_rows'[Len(prog_rows')]
RowAppended == AtRecord /\ pc' = "build" /\ Len(prog_rows') = Len(prog_rows) + 1

\* C13: the ProgramRow fields read from the label map by one key hold the
\* stripped text of the last entry that contributes to that label, and None
\* when no entry does; entries with an empty label or an empty stripped
\* text change nothing; a text held is free of mark-up.
C13_LabelMapLastWins ==
  [][RowAppended =>
       LET dets == recs[idx + 1].Details
       IN /\ NewRow.max_incentive_text = LastText(dets, "Maximum Incentive")
          /\ NewRow.equipment_requirements = LastText(dets, "Equipment Requirements")
          /\ NewRow.installation_requirements
               = LastText(dets, "Installation Requirements")
          /\ NewRow.rec_ownership_text
               = LastText(dets, "Ownership of Renewable Energy Credits")
          /\ NewRow.max_incentive_text /= PyNone => IsPlain(NewRow.max_incentive_text)]_vars

\* a record was handled whose first two entries contribute different texts
\* to one label and whose third entry, of the same label, strips to nothing:
\* the row holds the second text
C13_Witness ==
  /\ pc = "build" /\ idx = 1 /\ Len(prog_rows) = 1
  /\ LET dets == recs[1].Details
     IN /\ Len(dets) = 3
        /\ Contributing(dets, "Maximum Incentive") = {1, 2}
        /\ StripLabel(dets[3].label) = "Maximum Incentive"
        /\ dets[1].label /= dets[2].label
        /\ _strip_html(dets[1].value) /= _strip_html(dets[2].value)
        /\ prog_rows[1].max_incentive_text = _strip_html(dets[2].value)

\* the ISO date of a candidate that is a string the parser accepts, else
\* absent
DateOf(c) == IF c.ty = "str" /\ "date" \in DOMAIN c THEN PyIso(c.date) ELSE PyNone
FirstNonNull(a, b) == IF a /= PyNone THEN a ELSE b
FirstTruthy(a, b) == IF Truthy(a) THEN a ELSE b
OnlyDates(r) == r \in DateRecords

\* C14 as stated: each date field is computed from the first candidate that
\* is not null, and handling the dates of a record raises nothing.
C14_DatesAsStated ==
  [][(AtRecord /\ OnlyDates(recs[idx + 1])) =>
       LET r == recs[idx + 1]
       IN /\ pc' = "build" /\ Len(prog_rows') = Len(prog_rows) + 1
          /\ NewRow.start_date = DateOf(FirstNonNull(r.StartDate, r.EffectiveDate))
          /\ NewRow.end_date = DateOf(FirstNonNull(r.EndDate, r.ExpirationDate))
          /\ NewRow.last_updated
               = DateOf(FirstNonNull(r.LastUpdate, r.LastUpdated))]_vars

\* C14: each date field is computed from the first candidate that is
\* neither null nor otherwise falsy (an empty string counts as absent): the
\* ISO date of that candidate when it is a string that parses, else absent;
\* handling the dates of a record raises nothing.
C14_Dates ==
  [][(AtRecord /\ OnlyDates(recs[idx + 1])) =>
       LET r == recs[idx + 1]
       IN /\ pc' = "build" /\ Len(prog_rows') = Len(prog_rows) + 1
          /\ NewRow.start_date = DateOf(FirstTruthy(r.StartDate, r.EffectiveDate))
          /\ NewRow.end_date = DateOf(FirstTruthy(r.EndDate, r.ExpirationDate))
          /\ NewRow.last_updated
               = DateOf(FirstTruthy(r.LastUpdate, r.LastUpdated))]_vars

\* a record whose StartDate is the empty string and whose EffectiveDate
\* parses was handled: the row holds the ISO date of EffectiveDate
C14_Witness ==
  /\ pc = "build" /\ idx = 1 /\ Len(prog_rows) = 1
  /\ recs[1].StartDate = PyStr(0)
  /\ recs[1].EffectiveDate.ty = "str" /\ "date" \in DOMAIN recs[1].EffectiveDate
  /\ prog_rows[1].start_date = PyIso(recs[1].EffectiveDate.date)

\* the number of matches the five patterns find in a text: one per phrase
\* and pattern that matches it
Patterns == {"kw", "kwh", "w", "pct", "cap"}
Matched(pat) ==
  CASE pat = "kw" -> KwToks [] pat = "kwh" -> KwhToks [] pat = "w" -> WToks
    [] pat = "pct" -> PctToks [] pat = "cap" -> CapToks
MatchCount(text) ==
  IF text = PyNone THEN 0
  ELSE Cardinality({m \in (DOMAIN text.toks) \X Patterns :
                      text.toks[m[1]] \in Matched(m[2])})

\* the derived rows one pass appended: those mined from the incentive text
\* come first, those mined from the maximum-incentive text follow
DerivedAppended == SelectSeq(Appended, IsDerived)
FromIncentive(k) == k <= MatchCount(NewRow.incentive_text)

\* C15: a row mined from the maximum-incentive text has the qualifier "cap"
\* (the pattern's, or the default), never null; a row mined from the
\* incentive text has the qualifier "cap" when the capped-amount pattern
\* produced it (units USD) and null otherwise.
C15_DerivedQualifier ==
  [][RowAppended =>
       /\ Len(DerivedAppended) = MatchCount(NewRow.incentive_text)
                                   + MatchCount(NewRow.max_incentive_text)
       /\ \A k \in DOMAIN DerivedAppended :
            LET row == DerivedAppended[k]
            IN IF FromIncentive(k)
               THEN row.qualifier = IF row.units = PyLit("USD") THEN PyLit("cap")
                                    ELSE PyNone
               ELSE row.qualifier = PyLit("cap")]_vars

\* a record was handled whose incentive text gave a row without qualifier
\* and a capped row, and whose maximum-incentive text gave a $/kW row
C15_Witness ==
  /\ pc = "build" /\ idx = 1 /\ Len(prog_rows) = 1 /\ Len(param_rows) = 3
  /\ MatchCount(prog_rows[1].incentive_text) = 2
  /\ param_rows[1].qualifier = PyNone
  /\ param_rows[2].qualifier = PyLit("cap") /\ param_rows[2].units = PyLit("USD")
  /\ param_rows[3].qualifier = PyLit("cap") /\ param_rows[3].units = PyLit("$/kW")

\* what every parameter row satisfies, whichever record it comes from
RowShape(row) ==
  /\ IsStructured(row) \/ IsDerived(row)
  /\ IsStructured(row) => row.notes = PyNone
  /\ IsDerived(row) => row.tech = PyNone /\ row.sector = PyNone
                         /\ row.notes /= PyNone

\* C16: the source of a parameter row is one of the two origin tags; a
\* "ProgramParameters" row has null notes; a "DerivedFromDetails" row has
\* null tech and sector, and its notes are the whole text it was mined from
\* (the record's incentive text or its maximum-incentive text).
C16_SourceTagsAndNotes ==
  [][/\ RowAppended =>
          /\ \A k \in DOMAIN Appended : RowShape(Appended[k])
          /\ \A k \in DOMAIN DerivedAppended :
               DerivedAppended[k].notes
                 = IF FromIncentive(k) THEN NewRow.incentive_text
                   ELSE NewRow.max_incentive_text
     /\ outcome'.status = "ok" =>
          \A k \in DOMAIN outcome'.parameters_df.rows :
             RowShape(outcome'.parameters_df.rows[k])]_vars

\* a record was handled that gave a structured row with a technology scope,
\* a row mined from an incentive text of two phrases and a row mined from
\* another maximum-incentive text
C16_Witness ==
  /\ pc = "build" /\ idx = 1 /\ Len(prog_rows) = 1
  /\ prog_rows[1].incentive_text /= prog_rows[1].max_incentive_text
  /\ \E i, j, k \in DOMAIN param_rows :
       /\ IsStructured(param_rows[i]) /\ param_rows[i].tech /= PyNone
       /\ param_rows[i].notes = PyNone
       /\ IsDerived(param_rows[j]) /\ param_rows[j].notes = prog_rows[1].incentive_text
       /\ Len(param_rows[j].notes.toks) = 2
       /\ IsDerived(param_rows[k]) /\ param_rows[k].notes = prog_rows[1].max_incentive_text

Amounts(rows) == [k \in DOMAIN rows |-> rows[k].amount]
EntryAmounts(ps) == [k \in DOMAIN ps |-> FloatOf(ps[k].amount)]

\* C17: a pass of the record loop only appends to param_rows, so the rows
\* of an earlier record stay before those of a later one; what a record
\* appends is its structured rows in group-then-entry order, then the rows
\* mined from its incentive text, then those mined from its
\* maximum-incentive text; the parameters table returned is param_rows in
\* that order, whatever the sort does to the programs table.
C17_ParametersKeepEncounterOrder ==
  [][/\ (AtRecord /\ pc' = "build") =>
          /\ SubSeq(param_rows', 1, Len(param_rows)) = param_rows
          /\ prog_rows' = prog_rows => param_rows' = param_rows
     /\ RowAppended =>
          /\ \A k \in DOMAIN Appended : Appended[k].program_id = NewRow.program_id
          /\ Appended = SelectSeq(Appended, IsStructured) \o DerivedAppended
          /\ Amounts(SelectSeq(Appended, IsStructured))
               = EntryAmounts(SelectSeq(Entries(recs[idx + 1]), EntryOk))
          /\ \A k \in DOMAIN DerivedAppended :
               DerivedAppended[k].notes
                 = IF FromIncentive(k) THEN NewRow.incentive_text
                   ELSE NewRow.max_incentive_text
     /\ (AtAssemble /\ outcome'.status = "ok") =>
          outcome'.parameters_df.rows = param_rows]_vars

\* build_tables returned for two records that the sort of the programs
\* table exchanged: the parameters table still starts with the rows of the
\* record met first, its structured rows before its derived ones
C17_Witness ==
  /\ op = "build_tables" /\ pc = "done" /\ outcome.status = "ok"
  /\ LET P == outcome.programs_df.rows
         Q == outcome.parameters_df.rows
     IN /\ Len(P) = 2 /\ P[1].program_id /= P[2].program_id
        /\ Len(Q) >= 10
        /\ Q[1].program_id = P[2].program_id /\ Q[Len(Q)].program_id = P[1].program_id
        /\ IsStructured(Q[1]) /\ IsStructured(Q[2]) /\ IsDerived(Q[3])
        /\ Q[1].tech /= Q[2].tech

\* the positions of vals that hold a truthy value for the first time
FirstOccurrences(vals) ==
  {k \in DOMAIN vals : Truthy(vals[k]) /\ \A j \in 1..(k - 1) : vals[j] /= vals[k]}

\* res is the "; "-joined string of the values at the first occurrences, in
\* their order, and None when there is none
IsJoinOf(res, vals) ==
  LET F == FirstOccurrences(vals)
  IN IF F = {} THEN res = PyNone
     ELSE /\ res /= PyNone /\ Len(res.parts) = Cardinality(F)
          /\ \A k \in F : res.parts[Cardinality({j \in F : j <= k})] = vals[k]

\* str(EIA_id) of the utilities whose EIA_id is truthy; a falsy id stays as
\* it is and is dropped by the join
EiaValues(utils) ==
  [k \in DOMAIN utils |-> IF Truthy(utils[k].EIA_id) THEN PyStrOf(utils[k].EIA_id)
                          ELSE utils[k].EIA_id]

\* C18: each joined field of a ProgramRow, and the tech and sector of each
\* structured row, is the "; "-joined sequence of the projected values with
\* the falsy ones removed and each distinct value kept once at its first
\* occurrence, null when no value remains.
C18_JoinUnique ==
  [][RowAppended =>
       LET r == recs[idx + 1]
       IN /\ IsJoinOf(NewRow.technologies, Project(r.Technologies, "name"))
          /\ IsJoinOf(NewRow.technology_categories, Project(r.Technologies, "category"))
          /\ IsJoinOf(NewRow.sectors, Project(r.Sectors, "name"))
          /\ IsJoinOf(NewRow.utilities, Project(r.Utilities, "name"))
          /\ IsJoinOf(NewRow.utilities_eia_ids, EiaValues(r.Utilities))
          /\ \A k \in DOMAIN Appended :
               IsStructured(Appended[k]) =>
                 \E g \in DOMAIN r.ProgramParameters :
                    LET pp == r.ProgramParameters[g]
                    IN /\ IsJoinOf(Appended[k].tech, Project(pp.technologies, "name"))
                       /\ IsJoinOf(Appended[k].sector, Project(pp.sectors, "name"))]_vars

\* a record naming one technology twice and then another was handled: the
\* row names each once, in the order met, and their one category once
C18_Witness ==
  /\ pc = "build" /\ idx = 1 /\ Len(prog_rows) = 1
  /\ Project(recs[1].Technologies, "name") = <<PyStr(1), PyStr(1), PyStr(2)>>
  /\ prog_rows[1].technologies.parts = <<PyStr(1), PyStr(2)>>
  /\ prog_rows[1].technology_categories.parts = <<PyStr(5)>>

\* two date ranges share a day
Overlap(a, b) == a[1] <= b[2] /\ b[1] <= a[2]

\* C19: over the runs of the fetch CLI into one version directory, each
\* resuming from the saved last_end, a chunk is asked from the API only when
\* its file does not exist, and the date ranges that the names of the files
\* of the directory state are pairwise disjoint.
C19_SnapshotsDisjoint ==
  [][/\ (cli.pc = "loop" /\ cli'.pc = "fetch") =>
          FileName(Head(cli.chunks)) \notin MatchingFiles(raw_dir)
     /\ \A m, n \in MatchingFiles(raw_dir') :
          m /= n => ~Overlap(RangeOf(m), RangeOf(n))]_vars

\* a call of _request ended by a return statement that hands over the body
\* of a response received, after at most max_retries attempts of which only
\* the last succeeded
ReturnedBody(r) ==
  /\ r.pc = "returned" /\ r.received /\ r.result \in FetchDocs
  /\ Len(r.errors) + 1 <= r.max_retries

\* a call of _request ended by the exception of its last attempt, all
\* max_retries attempts having failed
RaisedLast(r) ==
  /\ r.pc = "raised" /\ ~r.received /\ r.result = NoBody
  /\ Len(r.errors) = r.max_retries /\ r.exc = r.errors[Len(r.errors)]

\* C20: a call of _request that has ended has either returned the body of a
\* successful response or raised the exception of its last failed attempt,
\* whatever max_retries is; it has slept backoff_sec * attempt after each
\* failed attempt but the last, and it never returns without a response.
C20_RequestOutcome ==
  /\ req.pc \in {"returned", "raised"} =>
       /\ ReturnedBody(req) \/ RaisedLast(req)
       /\ ~(ReturnedBody(req) /\ RaisedLast(req))
  /\ req.pc /= "idle" =>
       /\ Len(req.sleeps) = IF req.pc = "raised" THEN Len(req.errors) - 1
                            ELSE Len(req.errors)
       /\ \A k \in DOMAIN req.sleeps : req.sleeps[k] = req.backoff_sec * k

============================================================================
